---- MODULE Spec2Model ----
(***************************************************************************)
(* Family fund ledger (src/Main.py): the request workflow, the monthly     *)
(* withdrawal limit, the FIFO valuation engine, the quarterly claim window *)
(* and the asset allocation control, as one state machine over the store.  *)
(*                                                                         *)
(* Money is kept in cents (1/100 of a currency unit); R_total is kept in   *)
(* 1/10000 of a unit, the precision round(r_total, 4) keeps.  The clock    *)
(* counts ticks of 72 hours (one claim window) from EpochDate;             *)
(* datetime.now() is the tick, date.today() the day number of the tick,    *)
(* and the stored dates are day numbers since EpochDate.                   *)
(***************************************************************************)
EXTENDS Integers, Sequences, FiniteSets, TLC

\* ------------------------------------------------------------------ bounds
MaxNow == 2
MaxTx == 2
MaxReq == 1
MaxEvents == 2
MaxReasonLen == 2
MaxRows == 2
MaxHistory == 3
MaxYear == 2029
MaxRacers == 2

\* ------------------------------------------------------- program constants
BASE_LIMIT == 10000
PAYOUT_AMOUNT == 3000
WINDOW_HOURS == 72
HOURS_PER_TICK == 72
HOURS_PER_DAY == 24
NULL == -1

WindowTicks == WINDOW_HOURS \div HOURS_PER_TICK

\* the day number, since EpochDate, on which a tick of the clock falls
DayOfTick(t) == t * (HOURS_PER_TICK \div HOURS_PER_DAY)

\* ------------------------------------------------------------ input sets
Amounts == {0, 6000}
WithdrawalAmounts == {6000, 10000}
FinalAmounts == {7500}
InjectTypes == {"PRINCIPAL", "QUARTERLY_PAYOUT"}
AdjustActions == {"UP", "DOWN"}
ProcessActions == {"APPROVE", "REJECT", "HOLD"}
RejectReasons == {"", "late"}
Reasons == {"rent"}
Descriptions == {"manual"}
AssetNames == {"bond", "gold"}
AllocAmounts == {0, 4000, 6000}
\* adjudication without a rejection text
NoRejectReason == {""}
\* the narrower inputs of the specification that runs every handler on one store
CoreAmounts == {6000}
CoreInjectTypes == {"PRINCIPAL"}

\* what a caller can send where the handlers validate nothing: a negative
\* amount, a kind outside the six of the ledger
AnyAmounts == {-500, 6000}
AnyTypes == {"PRINCIPAL", "BONUS"}

\* the ledgers handed to the valuation engine: rows of the three roles
\* (principal inflow, alpha inflow, outflow) on a few days, and the dates it
\* values them at, some before and some after the rows
HistoryDates == {0, 5, 10}
HistoryInflowTypes == {"PRINCIPAL", "ALPHA"}
HistoryOutflowTypes == {"WITHDRAWAL"}
HistoryInflowAmounts == {5000, 6000}
HistoryOutflowAmounts == {0, 5000, 6000}
ValuationDates == {5, 10, 20}

\* the days date.today() is read on where only the limit policy is exercised:
\* from two years before the first raise up to MaxYear, the first days of
\* every month and one late day
LimitYears == 2025..MaxYear
LimitMonths == 1..12
LimitDays == {1, 2, 3, 4, 28}

\* --------------------------------------------------------------- calendar
EpochDate == [year |-> 2027, month |-> 3, day |-> 31]

IsLeap(y) == (y % 4 = 0 /\ y % 100 # 0) \/ y % 400 = 0

DaysInMonth(y, m) ==
    IF m = 2 THEN (IF IsLeap(y) THEN 29 ELSE 28)
    ELSE IF m \in {4, 6, 9, 11} THEN 30 ELSE 31

NextDay(dt) ==
    IF dt.day < DaysInMonth(dt.year, dt.month)
    THEN [dt EXCEPT !.day = @ + 1]
    ELSE IF dt.month < 12
         THEN [year |-> dt.year, month |-> dt.month + 1, day |-> 1]
         ELSE [year |-> dt.year + 1, month |-> 1, day |-> 1]

RECURSIVE DateOf(_)
DateOf(n) == IF n <= 0 THEN EpochDate ELSE NextDay(DateOf(n - 1))

\* a plausible slip: the anniversary itself still counts as before the raise
DateLT_Inclusive(a, b) ==
    \/ a.year < b.year
    \/ a.year = b.year /\ a.month < b.month
    \/ a.year = b.year /\ a.month = b.month /\ a.day <= b.day

DateLT(a, b) ==
    \/ a.year < b.year
    \/ a.year = b.year /\ a.month < b.month
    \/ a.year = b.year /\ a.month = b.month /\ a.day < b.day

\* ------------------------------------------------------------- arithmetic
RECURSIVE Pow(_, _)
Pow(b, e) == IF e <= 0 THEN 1 ELSE b * Pow(b, e - 1)

\* round to nearest of num / den, den > 0 and even
RoundDiv(num, den) == (num + den \div 2) \div den

RECURSIVE SumSeq(_)
SumSeq(s) == IF s = <<>> THEN 0 ELSE Head(s) + SumSeq(Tail(s))

AmountsOf(rows) == [i \in 1..Len(rows) |-> rows[i].amount]

\* --------------------------------------------------------- 4.1 limit policy
\* the limit in cents: round(BASE_LIMIT * 1.1 ** years_passed, 2)
get_dynamic_monthly_limit(today) ==
    LET current_year == today.year
        anniversary == [year |-> current_year, month |-> 4, day |-> 3]
        years_passed == IF DateLT(today, anniversary)
                        THEN current_year - 2026 - 1
                        ELSE current_year - 2026
    IN  IF current_year < 2027 THEN BASE_LIMIT
        ELSE IF years_passed <= 0 THEN BASE_LIMIT
        ELSE RoundDiv(BASE_LIMIT * Pow(11, years_passed), Pow(10, years_passed))

\* ---------------------------------------------------- 4.2 usage accumulator
SameMonth(n, today) ==
    DateOf(n).year = today.year /\ DateOf(n).month = today.month

get_current_month_used(txs, reqs, today) ==
    LET used_tx(t) == t.tx_type = "WITHDRAWAL" /\ SameMonth(t.tx_date, today)
        pending_req(r) == /\ r.req_type = "WITHDRAWAL_REQ"
                          /\ r.status = "PENDING"
                          /\ SameMonth(r.req_date, today)
    IN  SumSeq(AmountsOf(SelectSeq(txs, used_tx)))
        + SumSeq(AmountsOf(SelectSeq(reqs, pending_req)))

\* ---------------------------------------------------- 4.3 valuation engine
OutflowTypes == {"WITHDRAWAL", "QUARTERLY_PAYOUT", "ADJUST_DOWN"}
InflowTypes == {"PRINCIPAL", "ALPHA", "ADJUST_UP"}

\* ORDER BY tx_date ASC: a stable insertion by date
RECURSIVE InsertByDate(_, _)
InsertByDate(sorted, t) ==
    IF sorted = <<>> THEN <<t>>
    ELSE IF Head(sorted).tx_date <= t.tx_date
         THEN <<Head(sorted)>> \o InsertByDate(Tail(sorted), t)
         ELSE <<t>> \o sorted

RECURSIVE OrderByDate(_)
OrderByDate(txs) ==
    IF txs = <<>> THEN <<>>
    ELSE InsertByDate(OrderByDate(SubSeq(txs, 1, Len(txs) - 1)), txs[Len(txs)])

\* (1 + HURDLE_RATE) ** (days_held / 365.0) - 1, in units of 1e-8:
\* exp(x) - 1 = x + x^2/2 with x = days * ln(1.015) / 365, which agrees with
\* the float result to the eighth decimal for days_held up to 26
HurdleGrowth(days_held) ==
    (4079072 * days_held + 83 * days_held * days_held + 500) \div 1000

\* a plausible slip: the partial branch reduces the pool entry and forgets to
\* zero the inflow
RECURSIVE ConsumeWithdrawals_KeepsPartial(_, _)
ConsumeWithdrawals_KeepsPartial(withdrawals, effective_amount) ==
    IF withdrawals = <<>> \/ ~(effective_amount > 0)
    THEN <<withdrawals, effective_amount>>
    ELSE IF effective_amount >= Head(withdrawals)
         THEN ConsumeWithdrawals_KeepsPartial(Tail(withdrawals),
                                              effective_amount - Head(withdrawals))
         ELSE <<[withdrawals EXCEPT ![1] = @ - effective_amount], effective_amount>>

\* a plausible slip: the partial branch pops the pool entry instead of
\* reducing it
RECURSIVE ConsumeWithdrawals_DropsPartial(_, _)
ConsumeWithdrawals_DropsPartial(withdrawals, effective_amount) ==
    IF withdrawals = <<>> \/ ~(effective_amount > 0)
    THEN <<withdrawals, effective_amount>>
    ELSE IF effective_amount >= Head(withdrawals)
         THEN ConsumeWithdrawals_DropsPartial(Tail(withdrawals),
                                              effective_amount - Head(withdrawals))
         ELSE <<Tail(withdrawals), 0>>

\* the while loop of one inflow: <<withdrawals left, effective_amount>>
RECURSIVE ConsumeWithdrawals(_, _)
ConsumeWithdrawals(withdrawals, effective_amount) ==
    IF withdrawals = <<>> \/ ~(effective_amount > 0)
    THEN <<withdrawals, effective_amount>>
    ELSE IF effective_amount >= Head(withdrawals)
         THEN ConsumeWithdrawals(Tail(withdrawals), effective_amount - Head(withdrawals))
         ELSE <<[withdrawals EXCEPT ![1] = @ - effective_amount], 0>>

\* the for loop: acc = [withdrawals, principal, alpha, interest, lots]
\* principal and alpha in cents, interest in 1e-10 units; lots keeps, for
\* every inflow the loop did not skip, what the iteration computed
RECURSIVE FoldInflows(_, _, _)
FoldInflows(inflows, current_date, acc) ==
    IF inflows = <<>> THEN acc
    ELSE LET inflow == Head(inflows)
             days_held == current_date - inflow.tx_date
         IN  IF days_held < 0
             THEN FoldInflows(Tail(inflows), current_date, acc)
             ELSE LET c == ConsumeWithdrawals(acc.withdrawals, inflow.amount)
                      effective_amount == c[2]
                      interest == effective_amount * HurdleGrowth(days_held)
                      isPrincipal == inflow.tx_type \in {"PRINCIPAL", "ADJUST_UP"}
                  IN  FoldInflows(Tail(inflows), current_date,
                        [withdrawals |-> c[1],
                         principal |-> acc.principal
                                       + (IF isPrincipal THEN effective_amount ELSE 0),
                         alpha |-> acc.alpha
                                   + (IF isPrincipal THEN 0 ELSE effective_amount),
                         interest |-> acc.interest + interest,
                         lots |-> Append(acc.lots,
                                    [tx_date |-> inflow.tx_date,
                                     amount |-> inflow.amount,
                                     days_held |-> days_held,
                                     effective_amount |-> effective_amount,
                                     interest |-> interest])])

\* the query, the two partitions and the loop over the inflows
FoldHistory(transactions_, current_date) ==
    LET txs == OrderByDate(transactions_)
        isOut(t) == t.tx_type \in OutflowTypes
        isIn(t) == t.tx_type \in InflowTypes
    IN  FoldInflows(SelectSeq(txs, isIn), current_date,
           [withdrawals |-> AmountsOf(SelectSeq(txs, isOut)),
            principal |-> 0, alpha |-> 0, interest |-> 0, lots |-> <<>>])

calculate_system_nav(transactions_, current_date) ==
    LET folded == FoldHistory(transactions_, current_date)
        interest_e4 == RoundDiv(folded.interest, 1000000)
    IN  [R_total |-> (folded.principal + folded.alpha) * 100 + interest_e4,
         effective_principal |-> folded.principal,
         total_alpha |-> folded.alpha,
         total_compound_interest |-> interest_e4]

\* ------------------------------------------------------------------ state
\* inflight holds the withdrawal request handlers that run concurrently with
\* other requests and are between their limit test and their insert, each with
\* what it read
VARIABLES now, transactions, requests, allocations, events, result, inflight

vars == <<now, transactions, requests, allocations, events, result, inflight>>

today == DateOf(DayOfTick(now))

DBTransaction(tx_type, amount, description) ==
    [tx_date |-> DayOfTick(now), tx_type |-> tx_type, amount |-> amount,
     description |-> description]

DBRequest(req_type, amount, reason, proof_image) ==
    [req_date |-> DayOfTick(now), req_type |-> req_type, amount |-> amount,
     reason |-> reason, proof_image |-> proof_image, status |-> "PENDING"]

DBQuarterlyEvent(issued_at) ==
    [issued_at |-> issued_at, status |-> "ACTIVE", claimed_at |-> NULL]

Response(op, outcome, args) == [op |-> op, outcome |-> outcome, args |-> args]

Init ==
    /\ now = 0
    /\ transactions = <<>>
    /\ requests = <<>>
    /\ allocations = [a \in {} |-> 0]
    /\ events = <<>>
    /\ result = Response("start", "success", <<>>)
    /\ inflight = <<>>

\* the system clock moves on between two requests; no response is produced
Tick ==
    /\ now < MaxNow
    /\ now' = now + 1
    /\ result' = Response("tick", "none", <<>>)
    /\ UNCHANGED <<transactions, requests, allocations, events, inflight>>

\* ------------------------------------------------- 4.4 claim window manager
Latest(evs) == evs[Len(evs)]

Expired(event, at) == at > event.issued_at + WindowTicks

\* the lazy expiry of get_quarterly_info: the events table after the read
get_quarterly_info(evs, at) ==
    IF evs = <<>> THEN evs
    ELSE IF Latest(evs).status = "ACTIVE" /\ Expired(Latest(evs), at)
         THEN [evs EXCEPT ![Len(evs)].status = "EXPIRED"]
         ELSE evs

\* GET /api/v1/dashboard: the valuation is a pure read, the quarterly info
\* commits the expiry
get_dashboard ==
    /\ events' = get_quarterly_info(events, now)
    /\ result' = Response("dashboard", "success", <<>>)
    /\ UNCHANGED <<now, transactions, requests, allocations, inflight>>

\* the readings datetime.now() can return after a first reading of `at`
LaterReadings(at) == {t \in {at, at + 1} : t <= MaxNow}

\* a plausible slip: only an EXPIRED window is refused
Claimable_AnyUnexpired(evs) == evs # <<>> /\ Latest(evs).status # "EXPIRED"

\* the guard of claim_quarterly: an event exists and the latest is ACTIVE
Claimable(evs) == evs # <<>> /\ Latest(evs).status = "ACTIVE"

claim_quarterly ==
    IF ~Claimable(events)
    THEN /\ result' = Response("claim_quarterly", "NO_ACTIVE_WINDOW", <<>>)
         /\ UNCHANGED <<now, transactions, requests, allocations, events, inflight>>
    ELSE IF Expired(Latest(events), now)
    THEN /\ events' = [events EXCEPT ![Len(events)].status = "EXPIRED"]
         /\ result' = Response("claim_quarterly", "WINDOW_EXPIRED", <<>>)
         /\ UNCHANGED <<now, transactions, requests, allocations, inflight>>
    ELSE /\ Len(transactions) < MaxTx
         /\ \E later \in LaterReadings(now) :
              /\ now' = later
              /\ events' = [events EXCEPT ![Len(events)].status = "CLAIMED",
                                          ![Len(events)].claimed_at = later]
              /\ transactions' = Append(transactions,
                    [DBTransaction("QUARTERLY_PAYOUT", PAYOUT_AMOUNT, <<"quarterly payout">>)
                       EXCEPT !.tx_date = DayOfTick(later)])
         /\ result' = Response("claim_quarterly", "success", <<>>)
         /\ UNCHANGED <<requests, allocations, inflight>>

\* a plausible slip: the earlier windows are left as they are
ExpireActive_None(evs) == evs

\* a plausible slip: the filter on ACTIVE is dropped
ExpireActive_All(evs) ==
    [i \in 1..Len(evs) |-> [evs[i] EXCEPT !.status = "EXPIRED"]]

\* the loop of toggle_quarterly over the ACTIVE rows
ExpireActive(evs) ==
    [i \in 1..Len(evs) |->
        IF evs[i].status = "ACTIVE" THEN [evs[i] EXCEPT !.status = "EXPIRED"]
        ELSE evs[i]]

toggle_quarterly ==
    /\ Len(events) < MaxEvents
    /\ events' = Append(ExpireActive(events), DBQuarterlyEvent(now))
    /\ result' = Response("toggle_quarterly", "success", <<>>)
    /\ UNCHANGED <<now, transactions, requests, allocations, inflight>>

\* ------------------------------------------------- 4.5 request adjudication
\* a plausible slip: the boundary used + amount = limit is refused
LimitExceeded_AtBoundary(used, amount, limit) == used + amount >= limit

\* a plausible slip: the amount alone is tested against the limit
LimitExceeded_AmountOnly(used, amount, limit) == amount > limit

\* the circuit breaker of lp_request_withdrawal
LimitExceeded(used, amount, limit) == used + amount > limit

lp_request_withdrawal(amount, reason) ==
    LET limit == get_dynamic_monthly_limit(today)
    IN  IF LimitExceeded(get_current_month_used(transactions, requests, today),
                         amount, limit)
        THEN /\ result' = Response("request_withdrawal", "LIMIT_EXCEEDED",
                                   [amount |-> amount])
             /\ UNCHANGED <<now, transactions, requests, allocations, events, inflight>>
        ELSE /\ Len(requests) < MaxReq
             /\ requests' = Append(requests,
                                DBRequest("WITHDRAWAL_REQ", amount, <<reason>>, NULL))
             /\ result' = Response("request_withdrawal", "success",
                                   [amount |-> amount])
             /\ UNCHANGED <<now, transactions, allocations, events, inflight>>

\* lp_request_withdrawal running concurrently with other requests, first
\* step: the limit and the month's usage are read and tested
lp_request_withdrawal_check(amount, reason) ==
    LET limit == get_dynamic_monthly_limit(today)
        used == get_current_month_used(transactions, requests, today)
    IN  IF LimitExceeded(used, amount, limit)
        THEN /\ result' = Response("request_withdrawal", "LIMIT_EXCEEDED",
                                   [amount |-> amount])
             /\ UNCHANGED <<now, transactions, requests, allocations, events, inflight>>
        ELSE /\ Len(inflight) + Len(requests) < MaxRacers
             /\ inflight' = Append(inflight, [amount |-> amount, reason |-> reason,
                                              used |-> used, limit |-> limit])
             /\ result' = Response("limit_check", "none", [amount |-> amount])
             /\ UNCHANGED <<now, transactions, requests, allocations, events>>

\* second step, after whatever the other handlers did meanwhile: the row is
\* added and committed
lp_request_withdrawal_insert(k) ==
    /\ k \in 1..Len(inflight)
    /\ requests' = Append(requests,
                       DBRequest("WITHDRAWAL_REQ", inflight[k].amount,
                                 <<inflight[k].reason>>, NULL))
    /\ inflight' = SubSeq(inflight, 1, k - 1) \o SubSeq(inflight, k + 1, Len(inflight))
    /\ result' = Response("request_withdrawal", "success",
                          [amount |-> inflight[k].amount])
    /\ UNCHANGED <<now, transactions, allocations, events>>

lp_request_alpha(reason) ==
    /\ Len(requests) < MaxReq
    /\ requests' = Append(requests, DBRequest("ALPHA_REQ", 0, <<reason>>, 1))
    /\ result' = Response("request_alpha", "success", <<>>)
    /\ UNCHANGED <<now, transactions, allocations, events, inflight>>

\* the rejection annotation appended to the reason text: the reason is kept as
\* the sequence of its parts, the annotation being one more part
Annotate(reason, reject_reason) ==
    IF reject_reason # "" THEN Append(reason, reject_reason)
    ELSE reason

\* a plausible slip: the rejected amount is left as requested
RejectRow_KeepsAmount(req, action, reject_reason) ==
    IF action = "REJECT"
    THEN [req EXCEPT !.status = "REJECTED",
                     !.reason = Annotate(req.reason, reject_reason)]
    ELSE req

\* the REJECT branch on the loaded row
RejectRow(req, action, reject_reason) ==
    IF action = "REJECT"
    THEN [req EXCEPT !.status = "REJECTED", !.amount = 0,
                     !.reason = Annotate(req.reason, reject_reason)]
    ELSE req

\* a plausible slip: the amount is set and the status is left as it was
ApproveRow_AmountOnly(req, action, final_amount) ==
    IF action = "APPROVE"
    THEN [req EXCEPT !.amount = IF req.req_type = "ALPHA_REQ" THEN final_amount ELSE @]
    ELSE req

\* the APPROVE branch on the loaded row
ApproveRow(req, action, final_amount) ==
    IF action = "APPROVE"
    THEN [req EXCEPT !.status = "APPROVED",
                     !.amount = IF req.req_type = "ALPHA_REQ" THEN final_amount ELSE @]
    ELSE req

gp_process_request(req_id, action, final_amount, reject_reason) ==
    LET args == [req_id |-> req_id]
    IN  IF req_id \notin 1..Len(requests)
        THEN \* req is None: the first attribute access raises AttributeError
             /\ result' = Response("process_request",
                              IF action \in {"REJECT", "APPROVE"}
                              THEN "SERVER_ERROR" ELSE "success", args)
             /\ UNCHANGED <<now, transactions, requests, allocations, events, inflight>>
        ELSE LET req == requests[req_id]
                 rejected == RejectRow(req, action, reject_reason)
                 approved == ApproveRow(rejected, action, final_amount)
                 actual == IF rejected.req_type = "ALPHA_REQ"
                           THEN final_amount ELSE rejected.amount
                 tx_type == IF rejected.req_type = "WITHDRAWAL_REQ"
                            THEN "WITHDRAWAL" ELSE "ALPHA"
             IN  /\ Len(approved.reason) <= MaxReasonLen
                 /\ requests' = [requests EXCEPT ![req_id] = approved]
                 /\ IF action = "APPROVE"
                    THEN /\ Len(transactions) < MaxTx
                         /\ transactions' = Append(transactions,
                               DBTransaction(tx_type, actual,
                                             <<"audit approved">> \o rejected.reason))
                    ELSE UNCHANGED transactions
                 /\ result' = Response("process_request", "success", args)
                 /\ UNCHANGED <<now, allocations, events, inflight>>

\* ------------------------------------------------------ ledger injection
\* a plausible slip: the newest ledger row is overwritten instead of a new row
\* being added
gp_inject_funds_Overwrite(amount, tx_type, description) ==
    /\ transactions # <<>>
    /\ transactions' = [transactions EXCEPT
                          ![Len(transactions)] = DBTransaction(tx_type, amount, <<description>>)]
    /\ result' = Response("inject_funds", "success", <<>>)
    /\ UNCHANGED <<now, requests, allocations, events, inflight>>

gp_inject_funds(amount, tx_type, description) ==
    /\ Len(transactions) < MaxTx
    /\ transactions' = Append(transactions,
                          DBTransaction(tx_type, amount, <<description>>))
    /\ result' = Response("inject_funds", "success", <<>>)
    /\ UNCHANGED <<now, requests, allocations, events, inflight>>

\* a plausible slip: the row is written before the amount is validated
gp_adjust_funds_WriteFirst(action, amount, description) ==
    /\ Len(transactions) < MaxTx
    /\ transactions' = Append(transactions,
           DBTransaction(IF action = "UP" THEN "ADJUST_UP" ELSE "ADJUST_DOWN",
                         amount, <<"god mode", description>>))
    /\ result' = Response("adjust_funds",
                          IF amount <= 0 THEN "INVALID_AMOUNT" ELSE "success", <<>>)
    /\ UNCHANGED <<now, requests, allocations, events, inflight>>

gp_adjust_funds(action, amount, description) ==
    IF amount <= 0
    THEN /\ result' = Response("adjust_funds", "INVALID_AMOUNT", <<>>)
         /\ UNCHANGED <<now, transactions, requests, allocations, events, inflight>>
    ELSE /\ Len(transactions) < MaxTx
         /\ transactions' = Append(transactions,
               DBTransaction(IF action = "UP" THEN "ADJUST_UP" ELSE "ADJUST_DOWN",
                             amount, <<"god mode", description>>))
         /\ result' = Response("adjust_funds", "success", <<>>)
         /\ UNCHANGED <<now, requests, allocations, events, inflight>>

\* ---------------------------------------------------- 4.6 allocation control
RECURSIVE SumAllocated(_, _)
SumAllocated(alloc, names) ==
    IF names = {} THEN 0
    ELSE LET n == CHOOSE x \in names : TRUE
         IN  alloc[n] + SumAllocated(alloc, names \ {n})

\* the rows left by DELETE of one asset
DeleteRow(alloc, asset_name) ==
    [a \in DOMAIN alloc \ {asset_name} |-> alloc[a]]

\* the rows after UPDATE or INSERT of one asset
UpsertRow(alloc, asset_name, amount) ==
    [a \in DOMAIN alloc \cup {asset_name} |->
        IF a = asset_name THEN amount ELSE alloc[a]]

\* a plausible slip: the other assets are left out of the test
OverAllocated_AssetOnly(other_sum, amount, nav) == amount * 100 > nav.R_total

\* the anti-leverage test, amounts in cents against R_total in 1e-4 units
OverAllocated(other_sum, amount, nav) == (other_sum + amount) * 100 > nav.R_total

gp_update_allocation(asset_name, amount) ==
    LET nav == calculate_system_nav(transactions, DayOfTick(now))
        args == [asset_name |-> asset_name, amount |-> amount]
        other_sum == SumAllocated(allocations, DOMAIN allocations \ {asset_name})
    IN  IF amount <= 0
        THEN /\ allocations' = DeleteRow(allocations, asset_name)
             /\ result' = Response("asset_allocation", "success", args)
             /\ UNCHANGED <<now, transactions, requests, events, inflight>>
        ELSE IF OverAllocated(other_sum, amount, nav)
        THEN /\ result' = Response("asset_allocation", "OVER_ALLOCATED", args)
             /\ UNCHANGED <<now, transactions, requests, allocations, events, inflight>>
        ELSE /\ allocations' = UpsertRow(allocations, asset_name, amount)
             /\ result' = Response("asset_allocation", "success", args)
             /\ UNCHANGED <<now, transactions, requests, events, inflight>>

\* ---------------------------------------------------------- specifications
\* the withdrawal workflow: creation and adjudication of withdrawal requests
NextWithdrawals ==
    \/ Tick
    \/ \E amount \in WithdrawalAmounts, reason \in Reasons :
          lp_request_withdrawal(amount, reason)
    \/ \E req_id \in 1..(MaxReq + 1), action \in ProcessActions,
          final_amount \in FinalAmounts, reject_reason \in NoRejectReason :
          gp_process_request(req_id, action, final_amount, reject_reason)

SpecWithdrawals == Init /\ [][NextWithdrawals]_vars

\* the whole request workflow: both kinds of request, adjudication with and
\* without a rejection text
NextRequests ==
    \/ Tick
    \/ \E amount \in WithdrawalAmounts, reason \in Reasons :
          lp_request_withdrawal(amount, reason)
    \/ \E reason \in Reasons : lp_request_alpha(reason)
    \/ \E req_id \in 1..(MaxReq + 1), action \in ProcessActions,
          final_amount \in FinalAmounts, reject_reason \in RejectReasons :
          gp_process_request(req_id, action, final_amount, reject_reason)

SpecRequests == Init /\ [][NextRequests]_vars

\* adjudication alone, on one day: both kinds of request, every action, with
\* and without a rejection text
NextAdjudicate ==
    \/ \E amount \in CoreAmounts, reason \in Reasons :
          lp_request_withdrawal(amount, reason)
    \/ \E reason \in Reasons : lp_request_alpha(reason)
    \/ \E req_id \in 1..(MaxReq + 1), action \in ProcessActions,
          final_amount \in FinalAmounts, reject_reason \in RejectReasons :
          gp_process_request(req_id, action, final_amount, reject_reason)

SpecAdjudicate == Init /\ [][NextAdjudicate]_vars

\* withdrawal requests racing for the same monthly limit: handlers that run
\* as one unit next to handlers whose test and insert are interleaved with
\* the steps of the others
NextRace ==
    \/ Tick
    \/ \E amount \in WithdrawalAmounts, reason \in Reasons :
          lp_request_withdrawal(amount, reason)
    \/ \E amount \in WithdrawalAmounts, reason \in Reasons :
          lp_request_withdrawal_check(amount, reason)
    \/ \E k \in 1..MaxRacers : lp_request_withdrawal_insert(k)

SpecRace == Init /\ [][NextRace]_vars

\* the claim window: issuance, claim, lazy expiry on read
NextClaim ==
    \/ Tick
    \/ get_dashboard
    \/ claim_quarterly
    \/ toggle_quarterly
    \/ \E amount \in Amounts, tx_type \in InjectTypes, description \in Descriptions :
          gp_inject_funds(amount, tx_type, description)

SpecClaim == Init /\ [][NextClaim]_vars

\* the allocation control over a moving ledger
NextAlloc ==
    \/ Tick
    \/ \E amount \in Amounts, tx_type \in InjectTypes, description \in Descriptions :
          gp_inject_funds(amount, tx_type, description)
    \/ \E action \in AdjustActions, amount \in Amounts, description \in Descriptions :
          gp_adjust_funds(action, amount, description)
    \/ \E asset_name \in AssetNames, amount \in AllocAmounts :
          gp_update_allocation(asset_name, amount)

SpecAlloc == Init /\ [][NextAlloc]_vars

\* the writers of the ledger under arbitrary caller-supplied arguments
NextArbitrary ==
    \/ Tick
    \/ claim_quarterly
    \/ toggle_quarterly
    \/ \E amount \in AnyAmounts, reason \in Reasons :
          lp_request_withdrawal(amount, reason)
    \/ \E reason \in Reasons : lp_request_alpha(reason)
    \/ \E req_id \in 1..(MaxReq + 1), action \in ProcessActions,
          final_amount \in AnyAmounts, reject_reason \in NoRejectReason :
          gp_process_request(req_id, action, final_amount, reject_reason)
    \/ \E amount \in AnyAmounts, tx_type \in AnyTypes, description \in Descriptions :
          gp_inject_funds(amount, tx_type, description)
    \/ \E action \in AdjustActions, amount \in AnyAmounts, description \in Descriptions :
          gp_adjust_funds(action, amount, description)

SpecArbitrary == Init /\ [][NextArbitrary]_vars

\* the valuation engine as a function of the ledger and the date: a ledger of
\* at most MaxHistory rows, dated as the handlers date them (never earlier
\* than the row before), valued at any of the dates, again and again
HistoryRows ==
    [tx_date : HistoryDates, tx_type : HistoryInflowTypes,
     amount : HistoryInflowAmounts, description : {<<"manual">>}]
    \cup [tx_date : HistoryDates, tx_type : HistoryOutflowTypes,
          amount : HistoryOutflowAmounts, description : {<<"manual">>}]

\* the date-ordered ledgers of at most MaxHistory rows out of `rows`
Ledgers(rows) ==
    UNION {{h \in [1..n -> rows] :
               \A i \in 1..(n - 1) : h[i].tx_date <= h[i + 1].tx_date}
           : n \in 0..MaxHistory}

Histories == Ledgers(HistoryRows)

InitNav ==
    /\ now = 0
    /\ transactions \in Histories
    /\ requests = <<>>
    /\ allocations = [a \in {} |-> 0]
    /\ events = <<>>
    /\ result = Response("start", "success", <<>>)
    /\ inflight = <<>>

\* date.today() never goes back from one valuation to the next
valuate(current_date) ==
    /\ result.op = "valuate" => result.args.current_date <= current_date
    /\ result' = Response("valuate", "success",
                     [current_date |-> current_date,
                      nav |-> calculate_system_nav(transactions, current_date),
                      lots |-> FoldHistory(transactions, current_date).lots])
    /\ UNCHANGED <<now, transactions, requests, allocations, events, inflight>>

NextNav == \E current_date \in ValuationDates : valuate(current_date)

SpecNav == InitNav /\ [][NextNav]_vars

\* the valuation engine on the ledgers the handlers let through: a caller of
\* inject_funds can also post an inflow of a negative amount
AnyHistoryRows ==
    HistoryRows
    \cup [tx_date : HistoryDates, tx_type : CoreInjectTypes,
          amount : AnyAmounts \ HistoryInflowAmounts, description : {<<"manual">>}]

InitNavAny ==
    /\ now = 0
    /\ transactions \in Ledgers(AnyHistoryRows)
    /\ requests = <<>>
    /\ allocations = [a \in {} |-> 0]
    /\ events = <<>>
    /\ result = Response("start", "success", <<>>)
    /\ inflight = <<>>

SpecNavAny == InitNavAny /\ [][NextNav]_vars

\* GET /api/v1/lp/limit_status on the day `on`; the clock never goes back from
\* one call to the next
get_limit_status(on) ==
    LET limit == get_dynamic_monthly_limit(on)
        used == get_current_month_used(transactions, requests, on)
    IN  /\ result.op = "limit_status" => ~DateLT(on, result.args.today)
        /\ result' = Response("limit_status", "success",
                         [today |-> on, monthly_limit |-> limit,
                          used_amount |-> used, remaining |-> limit - used])
        /\ UNCHANGED <<now, transactions, requests, allocations, events, inflight>>

\* the limit policy as a function of the date
NextLimit ==
    \E year \in LimitYears, month \in LimitMonths, day \in LimitDays :
        get_limit_status([year |-> year, month |-> month, day |-> day])

SpecLimit == Init /\ [][NextLimit]_vars

\* every handler against one store that holds at most MaxRows rows
StoreRows ==
    Len(transactions) + Len(requests) + Len(events) + Cardinality(DOMAIN allocations)

\* the step leaves at most MaxRows rows in the store
StoreFits == StoreRows' <= MaxRows

Next ==
    \/ Tick
    \/ get_dashboard /\ StoreFits
    \/ claim_quarterly /\ StoreFits
    \/ toggle_quarterly /\ StoreFits
    \/ \E amount \in CoreAmounts, reason \in Reasons :
          lp_request_withdrawal(amount, reason) /\ StoreFits
    \/ \E reason \in Reasons : lp_request_alpha(reason) /\ StoreFits
    \/ \E req_id \in 1..(MaxReq + 1), action \in ProcessActions,
          final_amount \in FinalAmounts, reject_reason \in NoRejectReason :
          gp_process_request(req_id, action, final_amount, reject_reason) /\ StoreFits
    \/ \E amount \in CoreAmounts, tx_type \in CoreInjectTypes,
          description \in Descriptions :
          gp_inject_funds(amount, tx_type, description) /\ StoreFits
    \/ \E action \in AdjustActions, amount \in Amounts, description \in Descriptions :
          gp_adjust_funds(action, amount, description) /\ StoreFits
    \/ \E asset_name \in AssetNames, amount \in Amounts :
          gp_update_allocation(asset_name, amount) /\ StoreFits

Spec == Init /\ [][Next]_vars

\* ------------------------------------------------------------ properties
AllocatedTotal == SumAllocated(allocations, DOMAIN allocations)

ActiveEvents == {i \in 1..Len(events) : events[i].status = "ACTIVE"}

ClaimedEvents == {i \in 1..Len(events) : events[i].status = "CLAIMED"}

PayoutRows == {i \in 1..Len(transactions) :
                  transactions[i].tx_type = "QUARTERLY_PAYOUT"}

\* the payouts written by claim_quarterly carry its fixed description
ClaimPayoutRows == {i \in PayoutRows :
                       transactions[i].description = <<"quarterly payout">>}

ErrorOutcomes == {"LIMIT_EXCEEDED", "OVER_ALLOCATED", "NO_ACTIVE_WINDOW",
                  "WINDOW_EXPIRED", "INVALID_AMOUNT"}

\* C1: once a request is APPROVED or REJECTED, no later adjudication changes
\* its status, amount or reason (its status changes exactly once)
C1_AdjudicatedOnce ==
    [][\A i \in 1..Len(requests) :
          requests[i].status \in {"APPROVED", "REJECTED"}
          => /\ requests'[i].status = requests[i].status
             /\ requests'[i].amount = requests[i].amount
             /\ requests'[i].reason = requests[i].reason]_vars

\* C2: after any sequence of withdrawal requests and adjudications the month's
\* WITHDRAWAL transactions plus PENDING withdrawal requests stay within the
\* monthly limit
C2_MonthUsedWithinLimit ==
    get_current_month_used(transactions, requests, today)
        <= get_dynamic_monthly_limit(today)

\* C3 as stated: right after every successful set_allocation call, deletions
\* included, the allocated total is within the R_total computed in that call
C3_EveryCallWithinNav ==
    [][(result'.op = "asset_allocation" /\ result'.outcome = "success")
       => AllocatedTotal' * 100 <= calculate_system_nav(transactions, DayOfTick(now)).R_total]_vars

\* C3 amended: right after every successful set_allocation call that writes an
\* amount above zero, the allocated total is within the R_total of that call
C3_UpsertWithinNav ==
    [][(/\ result'.op = "asset_allocation"
        /\ result'.outcome = "success"
        /\ result'.args.amount > 0)
       => AllocatedTotal' * 100 <= calculate_system_nav(transactions, DayOfTick(now)).R_total]_vars

C3_Witness ==
    /\ result.op = "asset_allocation"
    /\ result.outcome = "success"
    /\ result.args.amount > 0
    /\ Cardinality(DOMAIN allocations) = 2
    /\ Len(transactions) = 2

\* C4: at most one quarterly event is ACTIVE, and an ACTIVE event is the most
\* recently issued one
C4_SingleActiveIsLatest ==
    /\ Cardinality(ActiveEvents) <= 1
    /\ \A i \in ActiveEvents : i = Len(events)

C4_Witness ==
    /\ Len(events) = 2
    /\ events[1].status = "EXPIRED"
    /\ ~Expired(events[1], now)
    /\ events[2].status = "ACTIVE"

\* C5 as stated: the QUARTERLY_PAYOUT transactions never outnumber the issued
\* events
C5_PayoutsWithinIssued == Cardinality(PayoutRows) <= Len(events)

\* C5 amended: a claim succeeds only on an ACTIVE latest event, sets it to
\* CLAIMED and appends exactly one QUARTERLY_PAYOUT of 30.0; every other claim
\* appends nothing; the payouts written by claims are as many as the CLAIMED
\* events, so never more than the issued events
C5_ClaimOncePerIssuance ==
    /\ [](/\ Cardinality(ClaimPayoutRows) = Cardinality(ClaimedEvents)
          /\ Cardinality(ClaimPayoutRows) <= Len(events)
          /\ \A i \in ClaimPayoutRows : transactions[i].amount = PAYOUT_AMOUNT)
    /\ [][result'.op = "claim_quarterly"
          => IF result'.outcome = "success"
             THEN /\ events # <<>>
                  /\ Latest(events).status = "ACTIVE"
                  /\ Latest(events').status = "CLAIMED"
                  /\ Len(events') = Len(events)
                  /\ Len(transactions') = Len(transactions) + 1
                  /\ SubSeq(transactions', 1, Len(transactions)) = transactions
                  /\ Len(transactions') \in ClaimPayoutRows'
             ELSE transactions' = transactions]_vars

C5_Witness ==
    /\ result.op = "claim_quarterly"
    /\ result.outcome = "NO_ACTIVE_WINDOW"
    /\ events # <<>>
    /\ Latest(events).status = "CLAIMED"
    /\ Cardinality(ClaimPayoutRows) = 1

\* C6: no event is ever CLAIMED with claimed_at later than issued_at + 72h
C6_ClaimedWithinWindow ==
    \A i \in ClaimedEvents :
        events[i].claimed_at <= events[i].issued_at + WindowTicks

\* C7: every event is created ACTIVE, and once an event is EXPIRED or CLAIMED
\* no toggle, claim or read changes its status or its claimed_at again
C7_TerminalEventsFrozen ==
    [][/\ \A i \in 1..Len(events) :
             events[i].status \in {"EXPIRED", "CLAIMED"} => events'[i] = events[i]
       /\ \A i \in (Len(events) + 1)..Len(events') :
             events'[i].status = "ACTIVE" /\ events'[i].claimed_at = NULL]_vars

C7_Witness ==
    /\ Len(events) = 2
    /\ events[1].status = "CLAIMED"
    /\ events[2].status = "EXPIRED"

\* C8: a withdrawal request inserts exactly one PENDING WITHDRAWAL_REQ row of
\* its amount when month_used + amount <= limit, equality included, and fails
\* with LIMIT_EXCEEDED creating no row when month_used + amount > limit
C8_RequestAtLimit ==
    [][result'.op = "request_withdrawal"
       => LET amount == result'.args.amount
              used == get_current_month_used(transactions, requests, today)
          IN  IF used + amount <= get_dynamic_monthly_limit(today)
              THEN /\ result'.outcome = "success"
                   /\ Len(requests') = Len(requests) + 1
                   /\ SubSeq(requests', 1, Len(requests)) = requests
                   /\ Latest(requests').req_type = "WITHDRAWAL_REQ"
                   /\ Latest(requests').status = "PENDING"
                   /\ Latest(requests').amount = amount
              ELSE /\ result'.outcome = "LIMIT_EXCEEDED"
                   /\ requests' = requests]_vars

C8_Witness ==
    /\ result.op = "request_withdrawal"
    /\ result.outcome = "success"
    /\ get_current_month_used(transactions, requests, today)
          = get_dynamic_monthly_limit(today)

\* C9: an operation that ends in LIMIT_EXCEEDED, OVER_ALLOCATED,
\* NO_ACTIVE_WINDOW, WINDOW_EXPIRED or INVALID_AMOUNT leaves the transactions,
\* requests and allocations tables as they were
C9_ErrorsWriteNothing ==
    [][result'.outcome \in ErrorOutcomes
       => UNCHANGED <<transactions, requests, allocations>>]_vars

C9_Witness ==
    /\ result.op = "claim_quarterly"
    /\ result.outcome = "WINDOW_EXPIRED"
    /\ Latest(events).status = "EXPIRED"
    /\ transactions # <<>>

\* C10: adjudication of a request id that is not in the store never reports
\* success (it ends in NOT_FOUND) and leaves the store unchanged
C10_UnknownIdNeverSucceeds ==
    [][(/\ result'.op = "process_request"
        /\ result'.args.req_id \notin 1..Len(requests))
       => /\ result'.outcome # "success"
          /\ UNCHANGED <<transactions, requests, allocations, events>>]_vars

\* an adjudication step that carries the action APPROVE
ApproveStep ==
    \E req_id \in 1..(MaxReq + 1), final_amount \in FinalAmounts,
       reject_reason \in RejectReasons :
       gp_process_request(req_id, "APPROVE", final_amount, reject_reason)

\* C11: the ledger is append-only: no step modifies or deletes an existing
\* Transaction row, and a step adds a row (exactly one) only if it is
\* inject_funds, adjust_funds, a successful claim or an APPROVE adjudication
C11_LedgerAppendOnly ==
    [][/\ Len(transactions') >= Len(transactions)
       /\ SubSeq(transactions', 1, Len(transactions)) = transactions
       /\ transactions' # transactions
            => /\ Len(transactions') = Len(transactions) + 1
               /\ result'.outcome = "success"
               /\ \/ result'.op \in {"inject_funds", "adjust_funds", "claim_quarterly"}
                  \/ result'.op = "process_request" /\ ApproveStep]_vars

C11_Witness ==
    /\ result.op = "process_request"
    /\ Len(requests) = 1
    /\ requests[1].status = "REJECTED"
    /\ Len(transactions) = 1
    /\ transactions[1].tx_type = "WITHDRAWAL"

LedgerKinds == InflowTypes \cup OutflowTypes

\* C12: every Transaction in the ledger has a non-negative amount and a kind
\* among PRINCIPAL, ALPHA, WITHDRAWAL, QUARTERLY_PAYOUT, ADJUST_UP, ADJUST_DOWN
C12_LedgerWellFormed ==
    \A i \in 1..Len(transactions) :
        /\ transactions[i].amount >= 0
        /\ transactions[i].tx_type \in LedgerKinds

\* the ledger of the FIFO example: inflow A of 50 on day 0, a withdrawal of 60
\* on day 5, inflow B of 50 on day 10
FifoExample ==
    <<[tx_date |-> 0, tx_type |-> "PRINCIPAL", amount |-> 5000, description |-> <<"manual">>],
      [tx_date |-> 5, tx_type |-> "WITHDRAWAL", amount |-> 6000, description |-> <<"manual">>],
      [tx_date |-> 10, tx_type |-> "PRINCIPAL", amount |-> 5000, description |-> <<"manual">>]>>

\* C13: outflows are matched against the inflows in strict FIFO order: an
\* inflow keeps less than its amount only if every inflow processed before it
\* (every chronologically earlier one that is not future-dated) keeps 0, the
\* interest of an inflow is computed on what it keeps, and the example ledger
\* valued on day 20 shows A with 0 left and 0 interest, B with 40 left and the
\* interest of 40 over 10 days
C13_StrictFifo ==
    result.op = "valuate"
    => LET lots == result.args.lots
       IN  /\ \A j \in 1..Len(lots) :
                 /\ lots[j].effective_amount < lots[j].amount
                      => \A i \in 1..(j - 1) : lots[i].effective_amount = 0
                 /\ lots[j].effective_amount <= lots[j].amount
                 /\ lots[j].interest
                      = lots[j].effective_amount * HurdleGrowth(lots[j].days_held)
           /\ (transactions = FifoExample /\ result.args.current_date = 20)
                => /\ Len(lots) = 2
                   /\ lots[1].effective_amount = 0
                   /\ lots[1].interest = 0
                   /\ lots[2].effective_amount = 4000
                   /\ lots[2].days_held = 10
                   /\ lots[2].interest = 4000 * HurdleGrowth(10)
                   /\ result.args.nav.effective_principal = 4000

C13_Witness ==
    /\ result.op = "valuate"
    /\ transactions = FifoExample
    /\ result.args.current_date = 20
    /\ result.args.lots[2].effective_amount = 4000

\* C14: for a fixed ledger and dates d1 <= d2, R_total valued at d1 is at most
\* R_total valued at d2, also when inflows are dated between d1 and d2 and when
\* the outflows exceed the inflows
C14_NavMonotone ==
    [][(/\ result.op = "valuate"
        /\ result'.op = "valuate"
        /\ transactions' = transactions
        /\ result.args.current_date <= result'.args.current_date)
       => result.args.nav.R_total <= result'.args.nav.R_total]_vars

SumInflows(txs) ==
    SumSeq(AmountsOf(SelectSeq(txs, LAMBDA t : t.tx_type \in InflowTypes)))

SumOutflows(txs) ==
    SumSeq(AmountsOf(SelectSeq(txs, LAMBDA t : t.tx_type \in OutflowTypes)))

NoFutureInflow(txs, current_date) ==
    \A i \in 1..Len(txs) :
        txs[i].tx_type \in InflowTypes => txs[i].tx_date <= current_date

\* C20: for a ledger of non-negative amounts with no inflow dated after the
\* valuation date, total_principal + total_alpha is max(0, inflows - outflows);
\* outflows above the inflows are dropped, so no component of the NAV is
\* negative on any ledger; the matching loop ends on every ledger
C20_Conservation ==
    result.op = "valuate"
    => LET nav == result.args.nav
           net == SumInflows(transactions) - SumOutflows(transactions)
       IN  /\ NoFutureInflow(transactions, result.args.current_date)
                => nav.effective_principal + nav.total_alpha
                     = (IF net > 0 THEN net ELSE 0)
           /\ nav.effective_principal >= 0
           /\ nav.total_alpha >= 0
           /\ nav.total_compound_interest >= 0
           /\ nav.R_total >= 0

\* outflows above the inflows, a zero outflow in the pool
C20_Witness ==
    /\ result.op = "valuate"
    /\ NoFutureInflow(transactions, result.args.current_date)
    /\ Len(transactions) = 3
    /\ SumOutflows(transactions) > SumInflows(transactions)
    /\ SumInflows(transactions) > 0
    /\ \E i \in 1..3 : transactions[i].amount = 0
    /\ result.args.nav.R_total = 0

DateKey(d) == d.year * 10000 + d.month * 100 + d.day

\* the April-3 anniversaries from 2027-04-03 up to and including the day d
Anniversaries(d) == {y \in 2027..d.year : y * 10000 + 403 <= DateKey(d)}

\* C15: the monthly limit is 100.0 on every day before 2027-04-03 and
\* afterwards 100 * 1.1^k rounded to 2 decimals, k the number of April-3
\* anniversaries from 2027-04-03 up to and including the day (110.0 on
\* 2027-04-03, 121.0 on 2028-04-03); it never decreases as the date advances
\* and differs between two days only if an April 3 lies after the first and
\* not after the second
C15_LimitSteps ==
    /\ [](result.op = "limit_status"
           => LET d == result.args.today
                  k == Cardinality(Anniversaries(d))
                  limit == result.args.monthly_limit
              IN  /\ DateKey(d) < 20270403 => limit = 10000
                  /\ d.year < 2027 => limit = 10000
                  /\ limit = (10000 * Pow(11, k) + Pow(10, k) \div 2) \div Pow(10, k)
                  /\ DateKey(d) = 20270402 => limit = 10000
                  /\ DateKey(d) = 20270403 => limit = 11000
                  /\ DateKey(d) = 20280403 => limit = 12100)
    /\ [][(result.op = "limit_status" /\ result'.op = "limit_status")
          => LET d1 == result.args.today
                 d2 == result'.args.today
             IN  /\ result.args.monthly_limit <= result'.args.monthly_limit
                 /\ result.args.monthly_limit # result'.args.monthly_limit
                      => \E y \in d1.year..d2.year :
                            /\ DateKey(d1) < y * 10000 + 403
                            /\ y * 10000 + 403 <= DateKey(d2)]_vars

C15_Witness ==
    /\ result.op = "limit_status"
    /\ DateKey(result.args.today) = 20280403
    /\ result.args.monthly_limit = 12100

\* C16: APPROVE of a PENDING request appends exactly one Transaction, of kind
\* ALPHA and amount final_amount for an ALPHA_REQ, of kind WITHDRAWAL and the
\* requested amount for a WITHDRAWAL_REQ, and the request becomes APPROVED
C16_ApprovePostsOnce ==
    [][\A req_id \in 1..Len(requests), final_amount \in FinalAmounts,
          reject_reason \in RejectReasons :
          (/\ requests[req_id].status = "PENDING"
           /\ gp_process_request(req_id, "APPROVE", final_amount, reject_reason))
          => /\ Len(transactions') = Len(transactions) + 1
             /\ SubSeq(transactions', 1, Len(transactions)) = transactions
             /\ requests'[req_id].status = "APPROVED"
             /\ IF requests[req_id].req_type = "ALPHA_REQ"
                THEN /\ Latest(transactions').tx_type = "ALPHA"
                     /\ Latest(transactions').amount = final_amount
                ELSE /\ Latest(transactions').tx_type = "WITHDRAWAL"
                     /\ Latest(transactions').amount = requests[req_id].amount]_vars

\* an alpha request with placeholder 0 approved at 75, after a withdrawal
\* request approved at its own amount
C16_Witness ==
    /\ result.op = "process_request"
    /\ \E i \in 1..Len(requests) :
          /\ requests[i].req_type = "ALPHA_REQ"
          /\ requests[i].status = "APPROVED"
          /\ requests[i].amount = 7500
    /\ transactions # <<>>
    /\ Latest(transactions).tx_type = "ALPHA"
    /\ Latest(transactions).amount = 7500
    /\ Len(transactions) = 1

\* C17: REJECT of a request sets its status to REJECTED and its amount to 0
\* and leaves the ledger as it was; an adjudication whose action is neither
\* APPROVE nor REJECT changes neither the requests nor the ledger
C17_RejectPostsNothing ==
    [][\A req_id \in 1..Len(requests), final_amount \in FinalAmounts,
          reject_reason \in RejectReasons :
          /\ gp_process_request(req_id, "REJECT", final_amount, reject_reason)
               => /\ requests'[req_id].status = "REJECTED"
                  /\ requests'[req_id].amount = 0
                  /\ \A i \in 1..Len(requests) : i # req_id => requests'[i] = requests[i]
                  /\ Len(requests') = Len(requests)
                  /\ transactions' = transactions
          /\ \A action \in ProcessActions \ {"APPROVE", "REJECT"} :
                gp_process_request(req_id, action, final_amount, reject_reason)
                => requests' = requests /\ transactions' = transactions]_vars

\* a withdrawal request rejected with a rejection text, nothing posted
C17_Witness ==
    /\ result.op = "process_request"
    /\ Len(requests) = 1
    /\ requests[1].req_type = "WITHDRAWAL_REQ"
    /\ requests[1].status = "REJECTED"
    /\ requests[1].amount = 0
    /\ Len(requests[1].reason) = 2
    /\ transactions = <<>>

\* the ledger rows written by an approval carry its description
ApprovalRows == {i \in 1..Len(transactions) :
                    Head(transactions[i].description) = "audit approved"}

ApprovedRequests == {i \in 1..Len(requests) : requests[i].status = "APPROVED"}

\* C18: each request is posted at most once: whatever the sequence of
\* adjudications, the transactions created by approval are at most as many as
\* the APPROVED requests (so a REJECTED request has none)
C18_PostedAtMostOnce == Cardinality(ApprovalRows) <= Cardinality(ApprovedRequests)

MonthUsedAt(txs, reqs, at) == get_current_month_used(txs, reqs, DateOf(DayOfTick(at)))

MonthLimitAt(at) == get_dynamic_monthly_limit(DateOf(DayOfTick(at)))

MonthUsed == MonthUsedAt(transactions, requests, now)

MonthLimit == MonthLimitAt(now)

\* C19: a withdrawal request handler that runs as one unit, or whose insert
\* finds the usage and the limit it tested, never takes the month's usage over
\* the limit (the second of two requests that jointly exceed it is rejected);
\* the usage gets over the limit only by the insert of a handler whose test
\* was overtaken by another insert, and then both requests have succeeded
C19_RaceOnlyWhenInterleaved ==
    [][/\ \A amount \in WithdrawalAmounts, reason \in Reasons :
             /\ (lp_request_withdrawal(amount, reason) /\ result'.outcome = "success")
                  => MonthUsedAt(transactions', requests', now') <= MonthLimitAt(now')
             /\ (/\ lp_request_withdrawal(amount, reason)
                 /\ MonthUsed + amount > MonthLimit)
                  => result'.outcome = "LIMIT_EXCEEDED" /\ requests' = requests
       /\ \A k \in 1..Len(inflight) :
             (/\ lp_request_withdrawal_insert(k)
              /\ inflight[k].used = MonthUsed
              /\ inflight[k].limit = MonthLimit)
             => MonthUsedAt(transactions', requests', now') <= MonthLimitAt(now')
       /\ (/\ MonthUsed <= MonthLimit
           /\ MonthUsedAt(transactions', requests', now') > MonthLimitAt(now'))
            => \E k \in 1..Len(inflight) :
                  /\ lp_request_withdrawal_insert(k)
                  /\ inflight[k].used < MonthUsed]_vars

\* two interleaved handlers have both succeeded and their amounts jointly
\* exceed the limit
C19_Witness ==
    /\ result.op = "request_withdrawal"
    /\ result.outcome = "success"
    /\ Len(requests) = 2
    /\ requests[1].status = "PENDING"
    /\ requests[2].status = "PENDING"
    /\ requests[1].req_date = requests[2].req_date
    /\ requests[1].amount <= MonthLimit
    /\ requests[2].amount <= MonthLimit
    /\ requests[1].amount + requests[2].amount > MonthLimit
    /\ MonthUsed > MonthLimit

====
